---- MODULE Spec2Model ----
(***************************************************************************)
(* A model of AtlassianAddon (index.ts): the tenant store behind the       *)
(* install / uninstall lifecycle endpoints, the shared-secret accessor,    *)
(* the registration of webhooks and the dispatch of inbound webhook        *)
(* events.  A request handler is a sequence of steps: it runs to its next   *)
(* await, is suspended there while the store or the webhook handler works, *)
(* and is resumed later; between two of its steps the steps of other       *)
(* requests and calls run.                                                 *)
(***************************************************************************)
EXTENDS Integers, Sequences, FiniteSets, Bags, TLC

(***************************************************************************)
(* Bounds of the model.                                                    *)
(***************************************************************************)
MaxBatches == 2          \* addWebhooks calls per instance
MaxRegistrations == 2    \* webhook configurations registered per instance, all calls together
MaxInflight == 2         \* lifecycle notifications handled at the same time
MaxHooksInflight == 1    \* webhook requests handled at the same time

(***************************************************************************)
(* Values.  Undefined stands for JavaScript's undefined in a string-typed  *)
(* position; a request body that is undefined has defined = FALSE.         *)
(***************************************************************************)
Undefined == "undefined"
Keys == {"k1", "k2"}
Secrets == {"s1", "s2"}
Events == {"e1", "e2"}
Urls == {Undefined, "/custom"}

\* The body of an install / uninstall notification after bodyParser.json().
NoBody == [defined |-> FALSE, clientKey |-> Undefined, sharedSecret |-> Undefined]
LifecycleBodies ==
    {NoBody} \cup [defined : {TRUE},
                   clientKey : Keys \cup {Undefined},
                   sharedSecret : Secrets \cup {Undefined}]
UninstallBodies == {b \in LifecycleBodies : b.sharedSecret = Undefined}

(***************************************************************************)
(* The Keyv store this._db: a collection of (key, value) entries.  A value *)
(* is the JSON payload of an install notification, which Keyv's JSON       *)
(* serialisation returns as it was stored.                                 *)
(***************************************************************************)
HasRecord(store, k) == \E e \in store : e.key = k

KeyvGet(store, k) ==
    IF HasRecord(store, k) THEN (CHOOSE e \in store : e.key = k).value ELSE NoBody

KeyvSetKeepOld(store, k, v) == store \cup {[key |-> k, value |-> v]}

KeyvSet(store, k, v) ==
    {e \in store : e.key # k} \cup {[key |-> k, value |-> v]}

KeyvDelete(store, k) == {e \in store : e.key # k}

(***************************************************************************)
(* getClientData / getSharedSecret.  `key in data` holds for the fields    *)
(* the stored payload carries; a field the payload lacks reads Undefined.  *)
(***************************************************************************)
FieldIn(data, key) ==
    CASE key = "clientKey" -> data.clientKey # Undefined
      [] key = "sharedSecret" -> data.sharedSecret # Undefined
      [] OTHER -> FALSE

FieldOf(data, key) ==
    CASE key = "clientKey" -> data.clientKey
      [] key = "sharedSecret" -> data.sharedSecret
      [] OTHER -> Undefined

getClientDataDefault(store, clientKey, key) ==
    LET data == KeyvGet(store, clientKey)
    IN  IF data.defined /\ FieldIn(data, key) THEN FieldOf(data, key) ELSE "s1"

getClientData(store, clientKey, key) ==
    LET data == KeyvGet(store, clientKey)
    IN  IF data.defined /\ FieldIn(data, key) THEN FieldOf(data, key) ELSE Undefined

getSharedSecret(store, clientKey) == getClientData(store, clientKey, "sharedSecret")

(***************************************************************************)
(* sendError: res.status(code).json({code, msg}).                          *)
(***************************************************************************)
NoResponse == [code |-> 0, msg |-> ""]
sendError(code, msg) == [code |-> code, msg |-> msg]

(***************************************************************************)
(* POST /installed and POST /uninstalled.  storeFails says that the Keyv   *)
(* call of this request rejects (the backing store is unreachable); the    *)
(* handlers have no try/catch, so the rejection leaves the async handler   *)
(* as a rejected promise and no response is sent.                          *)
(***************************************************************************)
Malformed(clientData) == ~clientData.defined \/ clientData.clientKey = Undefined

installedHandlerWriteFirst(store, clientData, storeFails) ==
    IF storeFails
    THEN [db |-> store, res |-> NoResponse, unhandled |-> TRUE]
    ELSE IF Malformed(clientData)
    THEN [db |-> KeyvSet(store, clientData.clientKey, clientData),
          res |-> sendError(500, "Received malformed installation payload from Jira"),
          unhandled |-> FALSE]
    ELSE [db |-> KeyvSet(store, clientData.clientKey, clientData),
          res |-> sendError(200, "Installation completed successfully"),
          unhandled |-> FALSE]

installedHandlerMerge(store, clientData, storeFails) ==
    LET old == KeyvGet(store, clientData.clientKey)
        merged == IF FieldIn(clientData, "sharedSecret") THEN clientData
                  ELSE [clientData EXCEPT !.sharedSecret = old.sharedSecret]
    IN  IF Malformed(clientData)
        THEN [db |-> store,
              res |-> sendError(500, "Received malformed installation payload from Jira"),
              unhandled |-> FALSE]
        ELSE IF storeFails
        THEN [db |-> store, res |-> NoResponse, unhandled |-> TRUE]
        ELSE [db |-> KeyvSet(store, clientData.clientKey, merged),
              res |-> sendError(200, "Installation completed successfully"),
              unhandled |-> FALSE]

installedHandler(store, clientData, storeFails) ==
    IF Malformed(clientData)
    THEN [db |-> store,
          res |-> sendError(500, "Received malformed installation payload from Jira"),
          unhandled |-> FALSE]
    ELSE IF storeFails
    THEN [db |-> store, res |-> NoResponse, unhandled |-> TRUE]
    ELSE [db |-> KeyvSet(store, clientData.clientKey, clientData),
          res |-> sendError(200, "Installation completed successfully"),
          unhandled |-> FALSE]

uninstalledHandlerWipe(store, clientData, storeFails) ==
    IF Malformed(clientData)
    THEN [db |-> store,
          res |-> sendError(500, "Received malformed installation payload from Jira"),
          unhandled |-> FALSE]
    ELSE IF storeFails
    THEN [db |-> store, res |-> NoResponse, unhandled |-> TRUE]
    ELSE [db |-> {},
          res |-> sendError(200, "Uninstall completed successfully"),
          unhandled |-> FALSE]

uninstalledHandler(store, clientData, storeFails) ==
    IF Malformed(clientData)
    THEN [db |-> store,
          res |-> sendError(500, "Received malformed installation payload from Jira"),
          unhandled |-> FALSE]
    ELSE IF storeFails
    THEN [db |-> store, res |-> NoResponse, unhandled |-> TRUE]
    ELSE [db |-> KeyvDelete(store, clientData.clientKey),
          res |-> sendError(200, "Uninstall completed successfully"),
          unhandled |-> FALSE]

(***************************************************************************)
(* addLifecycleEndpoints on the instance fields it reads and writes:       *)
(* _metaRouter (set or not), the routes of the meta router, the routes of  *)
(* subApp and _descriptorData.lifecycle.                                   *)
(***************************************************************************)
NoLifecycle == [installed |-> Undefined, uninstalled |-> Undefined]
ParamLifecycles == {NoLifecycle, [installed |-> "/custom", uninstalled |-> "/custom"]}

MetaMount == [kind |-> "use", path |-> "/meta", webhooks |-> << >>]
LifecycleRoutes ==
    << "use bodyParser.json", "post /installed", "post /uninstalled", "get /descriptor" >>

addLifecycleEndpointsNoGuard(inst) ==
    [metaRouter |-> TRUE,
     metaRoutes |-> LifecycleRoutes,
     subAppRoutes |-> Append(inst.subAppRoutes, MetaMount),
     lifecycle |-> [installed |-> "/meta/installed", uninstalled |-> "/meta/uninstalled"],
     logged |-> FALSE]

addLifecycleEndpoints(inst) ==
    IF inst.metaRouter
    THEN [inst EXCEPT !.logged = TRUE]
    ELSE [metaRouter |-> TRUE,
          metaRoutes |-> LifecycleRoutes,
          subAppRoutes |-> Append(inst.subAppRoutes, MetaMount),
          lifecycle |-> [installed |-> "/meta/installed", uninstalled |-> "/meta/uninstalled"],
          logged |-> FALSE]

\* The constructor: the descriptor is the caller's params, then
\* addLifecycleEndpoints runs on the fresh instance.
constructor(paramLifecycle) ==
    addLifecycleEndpoints([metaRouter |-> FALSE,
                           metaRoutes |-> << >>,
                           subAppRoutes |-> << >>,
                           lifecycle |-> paramLifecycle,
                           logged |-> FALSE])

(***************************************************************************)
(* addWebhooks.  A WebhookConfiguration is a definition (event, url) and a *)
(* handler; a handler is named by the call and the position it was passed  *)
(* in, so that two registrations never share a handler.  The url of every  *)
(* definition is overwritten, the definitions are pushed to the            *)
(* descriptor's modules.webhooks, and one more route `/webhook/:event` is  *)
(* added to subApp, closing over the array this call was given.            *)
(***************************************************************************)
Definitions == [event : Events, url : Urls]
NoModules == [defined |-> FALSE, webhooks |-> << >>]
\* params.modules as the caller gives it to the constructor: absent, or with a
\* webhooks entry of the caller's own.
ParamModules ==
    {NoModules, [defined |-> TRUE, webhooks |-> << [event |-> "e1", url |-> "/custom"] >>]}

DerivedUrl(event) == "/webhook/" \o event

SetUrlKeepSupplied(wh) ==
    IF wh.definition.url # Undefined THEN wh
    ELSE [wh EXCEPT !.definition.url = DerivedUrl(wh.definition.event)]

SetUrl(wh) == [wh EXCEPT !.definition.url = DerivedUrl(wh.definition.event)]

DefinitionOf(wh) == wh.definition

addWebhooks(routes, modules, webhooks) ==
    LET stored == [i \in 1..Len(webhooks) |-> SetUrl(webhooks[i])]
    IN  [modules |-> [defined |-> TRUE,
                      webhooks |-> modules.webhooks
                                     \o [i \in 1..Len(stored) |-> DefinitionOf(stored[i])]],
         subAppRoutes |-> Append(routes, [kind |-> "post",
                                          path |-> "/webhook/:event",
                                          webhooks |-> stored])]

(***************************************************************************)
(* Express hands a request to the first route registered for its path; the *)
(* webhook route handler always ends the request without calling next()    *)
(* on to a later route, so the first `/webhook/:event` route serves every  *)
(* webhook request.                                                        *)
(***************************************************************************)
IsWebhookRoute(r) == r.kind = "post" /\ r.path = "/webhook/:event"
WebhookRouteIndexes(routes) == {i \in 1..Len(routes) : IsWebhookRoute(routes[i])}
HasWebhookRoute(routes) == WebhookRouteIndexes(routes) # {}
Min(S) == CHOOSE x \in S : \A y \in S : x <= y
MatchingRoute(routes) == routes[Min(WebhookRouteIndexes(routes))]

(***************************************************************************)
(* Array.prototype.findIndex on the event name: the first index (from 1    *)
(* here) whose definition's event equals payload.webhookEvent, or -1.      *)
(***************************************************************************)
findIndexOrFirst(webhooks, webhookEvent) ==
    LET hits == {i \in 1..Len(webhooks) : webhooks[i].definition.event = webhookEvent}
    IN  IF hits = {} THEN (IF Len(webhooks) > 0 THEN 1 ELSE -1) ELSE Min(hits)

findIndex(webhooks, webhookEvent) ==
    LET hits == {i \in 1..Len(webhooks) : webhooks[i].definition.event = webhookEvent}
    IN  IF hits = {} THEN -1 ELSE Min(hits)

(***************************************************************************)
(* What a handler does when it is called.                                  *)
(***************************************************************************)
Outcomes == {"resolveTrue", "resolveFalse", "throwError", "throwNullish"}
Throws(outcome) == outcome \in {"throwError", "throwNullish"}

(***************************************************************************)
(* The webhook route handler, after bodyParser.json() and the              *)
(* authentication middleware.  event is req.params.event, body is          *)
(* req.body.  The result: the response sent (NoResponse if none), the      *)
(* handlers called in order, whether next(err) was called and whether the  *)
(* async handler ended as a rejected promise.  In the catch block          *)
(* e.toString() is evaluated on the thrown value; on a thrown undefined or *)
(* null that is a TypeError, thrown out of the catch block: the promise of *)
(* the async handler rejects and Express sends no response.                *)
(***************************************************************************)
NoHook == [defined |-> FALSE, webhookEvent |-> Undefined]
HookBodies == {NoHook} \cup [defined : {TRUE}, webhookEvent : Events \cup {Undefined}]

webhookRouteHandler(webhooks, event, body, outcome) ==
    LET nextErr == (event = "")
        index == findIndex(webhooks, body.webhookEvent)
    IN  IF ~body.defined
        THEN [res |-> NoResponse, invoked |-> << >>, nextErr |-> nextErr,
              unhandled |-> FALSE]
        ELSE IF index >= 0
        THEN [res |-> CASE ~Throws(outcome) ->
                             sendError(200, "Event handled successfully")
                        [] outcome = "throwError" ->
                             sendError(500, "Exception thrown during handling of webhook event")
                        [] OTHER -> NoResponse,
              invoked |-> << webhooks[index].handler >>,
              nextErr |-> nextErr,
              unhandled |-> (outcome = "throwNullish")]
        ELSE [res |-> sendError(404, "Event handler not found"),
              invoked |-> << >>, nextErr |-> nextErr, unhandled |-> FALSE]

(***************************************************************************)
(* The authentication middleware (./auth) in front of the webhook route.   *)
(* A token carries the tenant key it claims (iss), the secret it was       *)
(* signed with and whether it has expired.  The request-hash check is      *)
(* skipped: the skipQshVerification getter returns true.  The middleware   *)
(* awaits the tenant's shared secret (getSharedSecret, one read of the     *)
(* store) and verifies the token against the secret it read; it ends a     *)
(* request that is not verified with an authentication failure and passes  *)
(* a verified one on to the route handler.                                 *)
(***************************************************************************)
MalformedToken == [wellFormed |-> FALSE, iss |-> "k1", sig |-> "s1", expired |-> FALSE]
Tokens ==
    {MalformedToken} \cup
    [wellFormed : {TRUE}, iss : Keys, sig : Secrets, expired : BOOLEAN]

\* The store read of the middleware: none for a token that does not parse.
readSecret(store, token) ==
    IF token.wellFormed THEN getSharedSecret(store, token.iss) ELSE Undefined

verify(secret, token) ==
    IF ~token.wellFormed THEN "MalformedToken"
    ELSE IF secret = Undefined THEN "UnknownTenant"
    ELSE IF token.sig # secret THEN "InvalidSignature"
    ELSE IF token.expired THEN "ExpiredToken"
    ELSE "Verified"

authenticationMiddleware(secret, token) ==
    LET outcome == verify(secret, token)
    IN  [auth |-> outcome,
         passed |-> (outcome = "Verified"),
         res |-> IF outcome = "Verified" THEN NoResponse
                 ELSE sendError(401, "Authentication failed")]

(***************************************************************************)
(* getUpmToken (registration.ts).  The server's response either arrives    *)
(* (ok) with or without an 'upm-token' header, or the request fails and    *)
(* the awaited promise rejects.  The value the callback passed to then()   *)
(* returns is dropped: the function itself ends with `return undefined`.   *)
(***************************************************************************)
UpmTokens == {"t1"}
UpmResponses == [ok : BOOLEAN, header : UpmTokens \cup {Undefined}]
NoUpm == [ok |-> FALSE, header |-> Undefined, returned |-> Undefined, threw |-> FALSE]

getUpmToken(response) ==
    [returned |-> Undefined, threw |-> ~response.ok]


(***************************************************************************)
(* State.                                                                  *)
(*   db           the Keyv store this._db                                  *)
(*   metaRouter   whether this._metaRouter is set                          *)
(*   metaRoutes   the routes of the meta router                            *)
(*   subAppRoutes the routes of this.subApp, in registration order         *)
(*   descriptor   this._descriptorData: lifecycle and modules.webhooks     *)
(*   last         the last call made or request ended, with its outcome    *)
(*   inflight     the lifecycle notifications whose handler is suspended at *)
(*                its await, each with its store call pending or landed,    *)
(*                and how it overlaps the other notifications for its key   *)
(*   hooks        the webhook requests in flight: suspended in the          *)
(*                authentication middleware with the secret it read, or in  *)
(*                the route handler at the await of the webhook handler     *)
(*   landed       per tenant key, the last store write that landed (a       *)
(*                history of the interleaving)                              *)
(***************************************************************************)
VARIABLES db, metaRouter, metaRoutes, subAppRoutes, descriptor, last, inflight, hooks, landed

vars == << db, metaRouter, metaRoutes, subAppRoutes, descriptor, last, inflight, hooks, landed >>

NoWrite == [kind |-> "none", body |-> NoBody]

\* The requests in flight are bags: two requests alike in everything are two
\* requests.
Put(bag, q) == bag (+) SetToBag({q})
Take(bag, q) == bag (-) SetToBag({q})

\* The store write of a notification (this._db.set / this._db.delete) lands.
Land(history, kind, body) ==
    [history EXCEPT ![body.clientKey] = [kind |-> kind, body |-> body]]

Idle ==
    [op |-> "constructor", body |-> NoBody, storeFails |-> FALSE,
     token |-> MalformedToken, event |-> "", hook |-> NoHook,
     outcome |-> "none", auth |-> "none", res |-> NoResponse,
     invoked |-> << >>, nextErr |-> FALSE, unhandled |-> FALSE, logged |-> FALSE,
     supplied |-> FALSE, upm |-> NoUpm, rank |-> "none"]

Init ==
    \E paramLifecycle \in ParamLifecycles, paramModules \in ParamModules :
        LET inst == constructor(paramLifecycle)
        IN  /\ db = {}
            /\ metaRouter = inst.metaRouter
            /\ metaRoutes = inst.metaRoutes
            /\ subAppRoutes = inst.subAppRoutes
            /\ descriptor = [lifecycle |-> inst.lifecycle, modules |-> paramModules]
            /\ last = Idle
            /\ inflight = EmptyBag
            /\ hooks = EmptyBag
            /\ landed = [k \in Keys |-> NoWrite]

\* A further call of addLifecycleEndpoints on the instance.
AddLifecycleEndpoints ==
    LET inst == addLifecycleEndpoints([metaRouter |-> metaRouter,
                                       metaRoutes |-> metaRoutes,
                                       subAppRoutes |-> subAppRoutes,
                                       lifecycle |-> descriptor.lifecycle,
                                       logged |-> FALSE])
    IN  /\ metaRouter' = inst.metaRouter
        /\ metaRoutes' = inst.metaRoutes
        /\ subAppRoutes' = inst.subAppRoutes
        /\ descriptor' = [descriptor EXCEPT !.lifecycle = inst.lifecycle]
        /\ last' = [Idle EXCEPT !.op = "addLifecycleEndpoints", !.logged = inst.logged]
        /\ UNCHANGED << db, inflight, hooks, landed >>

\* addWebhooks(webhooks): the n-th call's i-th configuration has handler <<n, i>>.
Registered(routes) ==
    LET RECURSIVE Sum(_)
        Sum(i) == IF i = 0 THEN 0 ELSE Len(routes[i].webhooks) + Sum(i - 1)
    IN  Sum(Len(routes))

Batches(room) == UNION {[1..n -> Definitions] : n \in 0..room}

AddWebhooks ==
    \E defs \in Batches(MaxRegistrations - Registered(subAppRoutes)) :
        LET n == Cardinality(WebhookRouteIndexes(subAppRoutes)) + 1
            webhooks == [i \in 1..Len(defs) |-> [definition |-> defs[i], handler |-> << n, i >>]]
            r == addWebhooks(subAppRoutes, descriptor.modules, webhooks)
        IN  /\ n <= MaxBatches
            /\ subAppRoutes' = r.subAppRoutes
            /\ descriptor' = [descriptor EXCEPT !.modules = r.modules]
            /\ last' = [Idle EXCEPT !.op = "addWebhooks",
                                    !.supplied = (\E i \in 1..Len(defs) : defs[i].url # Undefined)]
            /\ UNCHANGED << db, metaRouter, metaRoutes, inflight, hooks, landed >>

\* A call of getUpmToken(server).
GetUpmToken ==
    \E response \in UpmResponses :
        LET r == getUpmToken(response)
        IN  /\ last' = [Idle EXCEPT !.op = "getUpmToken",
                                    !.upm = [ok |-> response.ok, header |-> response.header,
                                             returned |-> r.returned, threw |-> r.threw]]
            /\ UNCHANGED << db, metaRouter, metaRoutes, subAppRoutes, descriptor,
                            inflight, hooks, landed >>

(***************************************************************************)
(* The lifecycle handlers.  A handler runs up to its await (the body is    *)
(* tested, the store call is issued), is suspended while the store works,  *)
(* and is resumed to send its response; between these steps the steps of   *)
(* other requests run.  A store call lands as one write of the backing     *)
(* store, in any order among the pending ones, or rejects.                 *)
(***************************************************************************)
handlerOf(kind, store, body, storeFails) ==
    IF kind = "installed" THEN installedHandler(store, body, storeFails)
    ELSE uninstalledHandler(store, body, storeFails)

\* The notifications in flight for tenant key k become the older ones of k.
Older(bag, k) ==
    LET aged(q) == IF q.body.clientKey = k THEN [q EXCEPT !.rank = "older"] ELSE q
    IN  [p \in {aged(q) : q \in BagToSet(bag)} |->
            IF p.body.clientKey = k
            THEN CopiesIn([p EXCEPT !.rank = "alone"], bag)
                   + CopiesIn([p EXCEPT !.rank = "newest"], bag)
                   + CopiesIn(p, bag)
            ELSE CopiesIn(p, bag)]

\* A notification arrives (POST /meta/installed, POST /meta/uninstalled): a
\* malformed one is answered at once, another one issues its store call and
\* waits.  The rank of a waiting notification tells whether another
\* notification for its key has been in flight with it ("alone" if none) and,
\* if so, whether it arrived last of them ("newest") or not ("older").
ArriveFrom(installs, uninstalls, room) ==
    \E kind \in {"installed", "uninstalled"} :
        \E body \in (IF kind = "installed" THEN installs ELSE uninstalls) :
            LET r == handlerOf(kind, db, body, FALSE)
                alone == \A q \in BagToSet(inflight) : q.body.clientKey # body.clientKey
            IN  /\ IF Malformed(body)
                   THEN /\ db' = r.db
                        /\ last' = [Idle EXCEPT !.op = kind, !.body = body, !.res = r.res]
                        /\ UNCHANGED inflight
                   ELSE /\ BagCardinality(inflight) < room
                        /\ inflight' =
                             Put(Older(inflight, body.clientKey),
                                 [state |-> "pending", kind |-> kind, body |-> body,
                                  rank |-> IF alone THEN "alone" ELSE "newest"])
                        /\ UNCHANGED << db, last >>
                /\ UNCHANGED << metaRouter, metaRoutes, subAppRoutes, descriptor,
                                hooks, landed >>

Arrive == ArriveFrom(LifecycleBodies, UninstallBodies, MaxInflight)

\* The store call of a waiting notification lands.
StoreLands ==
    \E q \in BagToSet(inflight) :
        /\ q.state = "pending"
        /\ db' = handlerOf(q.kind, db, q.body, FALSE).db
        /\ landed' = Land(landed, q.kind, q.body)
        /\ inflight' = Put(Take(inflight, q), [q EXCEPT !.state = "landed"])
        /\ UNCHANGED << metaRouter, metaRoutes, subAppRoutes, descriptor, last, hooks >>

\* The store call of a waiting notification rejects: the handler ends there.
StoreRejects ==
    \E q \in BagToSet(inflight) :
        LET r == handlerOf(q.kind, db, q.body, TRUE)
        IN  /\ q.state = "pending"
            /\ db' = r.db
            /\ last' = [Idle EXCEPT !.op = q.kind, !.body = q.body, !.storeFails = TRUE,
                                    !.res = r.res, !.unhandled = r.unhandled]
            /\ inflight' = Take(inflight, q)
            /\ UNCHANGED << metaRouter, metaRoutes, subAppRoutes, descriptor, hooks, landed >>

\* A handler whose store call has landed is resumed and answers.
Respond ==
    \E q \in BagToSet(inflight) :
        /\ q.state = "landed"
        /\ last' = [Idle EXCEPT !.op = q.kind, !.body = q.body, !.rank = q.rank,
                                !.res = handlerOf(q.kind, db, q.body, FALSE).res]
        /\ inflight' = Take(inflight, q)
        /\ UNCHANGED << db, metaRouter, metaRoutes, subAppRoutes, descriptor,
                        hooks, landed >>

(***************************************************************************)
(* A webhook request: POST /webhook/:event with a token.  The route        *)
(* matches only a non-empty :event segment, which the handler does no more *)
(* than test for emptiness.  The request passes the authentication         *)
(* middleware, which is suspended while the store is read, then the route  *)
(* handler, which is suspended while the webhook handler works.  The body  *)
(* is read only behind the middleware and the webhook handler's outcome    *)
(* exists only once it was called, so each is drawn at the step that first *)
(* reads it.                                                               *)
(***************************************************************************)
ParamEvents == {"e1"}

\* The request arrives at the first webhook route; the middleware's read of
\* the store lands.
WebhookArriveFrom(tokens) ==
    \E token \in tokens :
        /\ HasWebhookRoute(subAppRoutes)
        /\ BagCardinality(hooks) < MaxHooksInflight
        /\ hooks' = Put(hooks, [state |-> "verifying", token |-> token,
                                secret |-> readSecret(db, token), hook |-> NoHook])
        /\ UNCHANGED << db, metaRouter, metaRoutes, subAppRoutes, descriptor,
                        last, inflight, landed >>

WebhookArrive == WebhookArriveFrom(Tokens)

\* The middleware is resumed with the secret it read.  A request that is not
\* verified is answered there; a verified one enters the route handler, which
\* runs to the call of the matching webhook handler, or ends at once when the
\* body is missing or no configuration matches.
WebhookDispatch ==
    \E q \in BagToSet(hooks), event \in ParamEvents :
        LET a == authenticationMiddleware(q.secret, q.token)
            ws == MatchingRoute(subAppRoutes).webhooks
        IN  /\ q.state = "verifying"
            /\ \E body \in (IF a.passed THEN HookBodies ELSE {NoHook}) :
                 LET r == webhookRouteHandler(ws, event, body, "none")
                 IN  IF a.passed /\ r.invoked # << >>
                     THEN /\ hooks' = Put(Take(hooks, q),
                                          [q EXCEPT !.state = "handling", !.hook = body])
                          /\ UNCHANGED last
                     ELSE /\ hooks' = Take(hooks, q)
                          /\ last' = [Idle EXCEPT
                                        !.op = "webhook", !.token = q.token, !.event = event,
                                        !.hook = body, !.auth = a.auth,
                                        !.res = IF a.passed THEN r.res ELSE a.res,
                                        !.nextErr = a.passed /\ r.nextErr,
                                        !.unhandled = a.passed /\ r.unhandled]
            /\ UNCHANGED << db, metaRouter, metaRoutes, subAppRoutes, descriptor,
                            inflight, landed >>

\* The webhook handler settles (resolves or throws) and the route handler is
\* resumed to its end.
WebhookSettle ==
    \E q \in BagToSet(hooks), event \in ParamEvents, outcome \in Outcomes :
        LET ws == MatchingRoute(subAppRoutes).webhooks
            r == webhookRouteHandler(ws, event, q.hook, outcome)
        IN  /\ q.state = "handling"
            /\ hooks' = Take(hooks, q)
            /\ last' = [Idle EXCEPT
                          !.op = "webhook", !.token = q.token, !.event = event,
                          !.hook = q.hook, !.auth = "Verified", !.outcome = outcome,
                          !.res = r.res, !.invoked = r.invoked,
                          !.nextErr = r.nextErr, !.unhandled = r.unhandled]
            /\ UNCHANGED << db, metaRouter, metaRoutes, subAppRoutes, descriptor,
                            inflight, landed >>

Next ==
    \/ AddLifecycleEndpoints
    \/ AddWebhooks
    \/ GetUpmToken
    \/ Arrive
    \/ StoreLands
    \/ StoreRejects
    \/ Respond
    \/ WebhookArrive
    \/ WebhookDispatch
    \/ WebhookSettle

Spec == Init /\ [][Next]_vars

(***************************************************************************)
(* The calls on the instance alone: no request is in flight.               *)
(***************************************************************************)
NextRegistration ==
    \/ AddLifecycleEndpoints
    \/ AddWebhooks
    \/ GetUpmToken

SpecRegistration == Init /\ [][NextRegistration]_vars

(***************************************************************************)
(* The lifecycle notifications alone.  The lifecycle handlers read nothing *)
(* of the descriptor: one construction stands for all.                     *)
(***************************************************************************)
NextLifecycle ==
    \/ Arrive
    \/ StoreLands
    \/ StoreRejects
    \/ Respond

InitLifecycle == Init /\ descriptor.modules = NoModules

SpecLifecycle == InitLifecycle /\ [][NextLifecycle]_vars

(***************************************************************************)
(* The webhook requests, among the registrations of webhooks and the       *)
(* lifecycle notifications of one tenant, one of them in flight at a time: *)
(* its install and its uninstall, which a webhook request in flight        *)
(* overlaps.                                                               *)
(***************************************************************************)
TenantInstalls == {[defined |-> TRUE, clientKey |-> "k1", sharedSecret |-> "s1"]}
TenantUninstalls == {[defined |-> TRUE, clientKey |-> "k1", sharedSecret |-> Undefined]}

\* The tokens presented: for the tenant (valid, expired, signed with another
\* secret), for a tenant never installed and signed with the first one's
\* secret, and one that does not parse.
TenantTokens ==
    {MalformedToken,
     [wellFormed |-> TRUE, iss |-> "k1", sig |-> "s1", expired |-> FALSE],
     [wellFormed |-> TRUE, iss |-> "k1", sig |-> "s1", expired |-> TRUE],
     [wellFormed |-> TRUE, iss |-> "k1", sig |-> "s2", expired |-> FALSE],
     [wellFormed |-> TRUE, iss |-> "k2", sig |-> "s1", expired |-> FALSE]}

ArriveTenant == ArriveFrom(TenantInstalls, TenantUninstalls, 1)

WebhookArriveTenant == WebhookArriveFrom(TenantTokens)

NextWebhooks ==
    \/ AddWebhooks
    \/ ArriveTenant
    \/ StoreLands
    \/ StoreRejects
    \/ Respond
    \/ WebhookArriveTenant
    \/ WebhookDispatch
    \/ WebhookSettle

InitWebhooks == Init /\ descriptor.modules = NoModules

SpecWebhooks == InitWebhooks /\ [][NextWebhooks]_vars

(***************************************************************************)
(* Claims.                                                                 *)
(***************************************************************************)
RecordsOf(store, k) == {e \in store : e.key = k}

\* The step in which the store call of notification q lands, and the step in
\* which q, its store call landed, is answered.
Lands(q) ==
    /\ q.state = "pending"
    /\ inflight' = Put(Take(inflight, q), [q EXCEPT !.state = "landed"])

Answers(q) ==
    /\ q.state = "landed"
    /\ inflight' = Take(inflight, q)

\* The step in which the authentication middleware of webhook request q is
\* resumed with the secret it read.
Resumes(q) ==
    /\ q.state = "verifying"
    /\ hooks' # hooks
    /\ CopiesIn(q, hooks') < CopiesIn(q, hooks)

\* C1: a tenant key with no record in the store has no shared secret
\* (getSharedSecret yields undefined); the authentication middleware's read
\* of the store for a token claiming such a key yields no secret, however
\* the token is signed, and the request that read no secret is rejected with
\* UnknownTenant: it is answered with the authentication failure and never
\* reaches a webhook handler.  The landing of an uninstall's store call
\* leaves no record for its key.
C1_MissingRecordFailsClosed ==
    /\ [] (\A k \in Keys : ~HasRecord(db, k) => getSharedSecret(db, k) = Undefined)
    /\ [][ \A p \in BagToSet(hooks') :
              (hooks' = Put(hooks, p) /\ p.token.wellFormed /\ ~HasRecord(db, p.token.iss))
                 => /\ p.state = "verifying"
                    /\ p.secret = Undefined ]_vars
    /\ [][ \A q \in BagToSet(hooks) :
              (Resumes(q) /\ q.token.wellFormed /\ q.secret = Undefined)
                 => /\ hooks' = Take(hooks, q)
                    /\ last'.op = "webhook"
                    /\ last'.token = q.token
                    /\ last'.auth = "UnknownTenant"
                    /\ last'.invoked = << >>
                    /\ last'.res.code = 401 ]_vars
    /\ [][ \A q \in BagToSet(inflight) :
              (Lands(q) /\ q.kind = "uninstalled") => ~HasRecord(db', q.body.clientKey) ]_vars

\* A token for a tenant without a record, signed with the secret of another,
\* installed tenant, has been rejected.
C1_Witness ==
    /\ last.op = "webhook"
    /\ last.token.wellFormed
    /\ last.auth = "UnknownTenant"
    /\ last.res.code = 401
    /\ ~HasRecord(db, last.token.iss)
    /\ \E e \in db : e.value.sharedSecret = last.token.sig

\* C2 as stated: the store holds at most one record per tenant key, and
\* when an install that is the most recent notification for its key (none
\* for that key arrived after it) is answered, the answer is 200, the record
\* of its key is exactly that install's payload and getSharedSecret returns
\* that payload's sharedSecret.
C2_InstallReplacesRecord ==
    /\ [] (\A k \in Keys : Cardinality(RecordsOf(db, k)) <= 1)
    /\ [][ \A q \in BagToSet(inflight) :
              (Answers(q) /\ q.kind = "installed" /\ q.rank \in {"alone", "newest"})
                 => /\ last'.res.code = 200
                    /\ RecordsOf(db', q.body.clientKey)
                          = {[key |-> q.body.clientKey, value |-> q.body]}
                    /\ getSharedSecret(db', q.body.clientKey) = q.body.sharedSecret ]_vars

\* C2, amended: the store holds at most one record per tenant key, and when
\* an install during whose handling no other notification for its key was in
\* flight is answered, the answer is 200, the record of its key is exactly
\* that install's payload and getSharedSecret returns that payload's
\* sharedSecret.
C2_InstallAloneReplacesRecord ==
    /\ [] (\A k \in Keys : Cardinality(RecordsOf(db, k)) <= 1)
    /\ [][ \A q \in BagToSet(inflight) :
              (Answers(q) /\ q.kind = "installed" /\ q.rank = "alone")
                 => /\ last'.res.code = 200
                    /\ RecordsOf(db', q.body.clientKey)
                          = {[key |-> q.body.clientKey, value |-> q.body]}
                    /\ getSharedSecret(db', q.body.clientKey) = q.body.sharedSecret ]_vars

\* An install without a sharedSecret, no other notification for its key in
\* flight with it, has been answered with 200 while another tenant is
\* installed and a notification for that other tenant is in flight.
C2_Witness ==
    /\ last.op = "installed"
    /\ last.res.code = 200
    /\ last.rank = "alone"
    /\ last.body.sharedSecret = Undefined
    /\ landed[last.body.clientKey].body = last.body
    /\ \E k \in Keys : k # last.body.clientKey /\ HasRecord(db, k)
    /\ \E q \in BagToSet(inflight) : q.body.clientKey # last.body.clientKey

\* C3: an install or uninstall notification whose body is missing or has no
\* tenant key is answered with {code: 500, msg} at its arrival (no request
\* is suspended or resumed in that step) and the step leaves the store as it
\* was.
C3_MalformedLeavesStore ==
    [][ (/\ UNCHANGED << inflight, hooks >>
         /\ last'.op \in {"installed", "uninstalled"}
         /\ Malformed(last'.body))
          => /\ db' = db
             /\ last'.res = sendError(500, "Received malformed installation payload from Jira")
      ]_vars

\* A notification with a body but no tenant key was rejected while the store
\* held a record and the store call of another notification was pending.
C3_Witness ==
    /\ last.op \in {"installed", "uninstalled"}
    /\ last.body.defined
    /\ Malformed(last.body)
    /\ last.res.code = 500
    /\ db # {}
    /\ \E q \in BagToSet(inflight) : q.state = "pending"

\* C4: the store call of an uninstall notification with a tenant key, when
\* it lands, leaves no record for its key and the records of every other key
\* as they were, and leaves the store unchanged if the key had no record (so
\* a repeated uninstall changes nothing more); the notification is then
\* answered with 200, and the answer changes nothing of the store.
C4_UninstallIdempotent ==
    [][ \A q \in BagToSet(inflight) :
          q.kind = "uninstalled"
            => /\ Lands(q)
                    => /\ ~HasRecord(db', q.body.clientKey)
                       /\ \A k \in Keys \ {q.body.clientKey} :
                             RecordsOf(db', k) = RecordsOf(db, k)
                       /\ (~HasRecord(db, q.body.clientKey) => db' = db)
               /\ Answers(q)
                    => /\ last'.res = sendError(200, "Uninstall completed successfully")
                       /\ db' = db
      ]_vars

\* An uninstall for a key without a record has been answered with 200 while
\* another tenant stays installed.
C4_Witness ==
    /\ last.op = "uninstalled"
    /\ last.res.code = 200
    /\ last.rank = "alone"
    /\ landed[last.body.clientKey].kind = "uninstalled"
    /\ ~HasRecord(db, last.body.clientKey)
    /\ db # {}

\* Every configuration registered on the instance, in registration order.
AllRegistrations(routes) ==
    LET RECURSIVE Cat(_)
        Cat(i) == IF i = 0 THEN << >> ELSE Cat(i - 1) \o routes[i].webhooks
    IN  Cat(Len(routes))

RegisteredFor(routes, name) ==
    {i \in 1..Len(AllRegistrations(routes)) :
        AllRegistrations(routes)[i].definition.event = name}

\* The last request ended was a webhook request that passed the
\* authentication middleware and carried a body.  (A call of addWebhooks is
\* itself the last call made, so the registrations are the ones this request
\* was dispatched on, or those and later ones.)
Dispatched == last.op = "webhook" /\ last.auth = "Verified" /\ last.hook.defined

\* C5: for an authenticated webhook event whose event name matches at least
\* one registration (of any addWebhooks call), exactly one handler is called,
\* once: the handler of the first registration for that name.
C5_ExactlyOneHandler ==
    (Dispatched /\ RegisteredFor(subAppRoutes, last.hook.webhookEvent) # {})
        => last.invoked =
             << AllRegistrations(subAppRoutes)[
                    Min(RegisteredFor(subAppRoutes, last.hook.webhookEvent))].handler >>

\* C6: the response reflects the handler's outcome: 200 when it resolves
\* true, a failure response (a response other than 200) when it resolves
\* false.
C6_ResponseReflectsOutcome ==
    /\ (last.op = "webhook" /\ last.outcome = "resolveTrue") => last.res.code = 200
    /\ (last.op = "webhook" /\ last.outcome = "resolveFalse")
          => last.res.code \notin {0, 200}

\* C7: an authenticated webhook event whose event name matches no
\* registration is answered with {code: 404, msg} and no handler is called.
C7_NoMatchNotFound ==
    (Dispatched /\ RegisteredFor(subAppRoutes, last.hook.webhookEvent) = {})
        => /\ last.res = sendError(404, "Event handler not found")
           /\ last.invoked = << >>

\* An event name without a registration was dispatched while other event
\* names are registered and the tenant's uninstall is in flight.
C7_Witness ==
    /\ Dispatched
    /\ last.hook.webhookEvent \in Events
    /\ RegisteredFor(subAppRoutes, last.hook.webhookEvent) = {}
    /\ AllRegistrations(subAppRoutes) # << >>
    /\ last.res.code = 404
    /\ \E q \in BagToSet(inflight) : q.kind = "uninstalled"

\* C8: a handler that throws, or whose promise rejects, gives the response
\* {code: 500, msg}, nothing escapes the route handler, and no step of a
\* webhook request changes the registrations or the tenant store.
C8_ThrowingHandlerAnswered ==
    /\ [] ((last.op = "webhook" /\ Throws(last.outcome))
              => (last.res.code = 500 /\ ~last.unhandled))
    /\ [][ hooks' # hooks => UNCHANGED << db, subAppRoutes, descriptor >> ]_vars

\* C9: an install or uninstall notification during which the store rejects
\* is answered with a server-error response {code, msg} and the rejection
\* does not escape the handler.
C9_StoreFailureAnswered ==
    (last.op \in {"installed", "uninstalled"} /\ last.storeFails)
        => (last.res.code >= 500 /\ ~last.unhandled)

\* C10: a further addLifecycleEndpoints call changes nothing of the instance
\* (no route is added to subApp or to the meta router, the store and the
\* descriptor stay as they are), and the descriptor's lifecycle paths are
\* /meta/installed and /meta/uninstalled throughout.
C10_LifecycleRegistrationIdempotent ==
    /\ [] (/\ descriptor.lifecycle = [installed |-> "/meta/installed",
                                      uninstalled |-> "/meta/uninstalled"]
           /\ metaRoutes = LifecycleRoutes
           /\ Cardinality({i \in 1..Len(subAppRoutes) : subAppRoutes[i].kind = "use"}) = 1)
    /\ [][ last'.op = "addLifecycleEndpoints"
             => (UNCHANGED << db, metaRouter, metaRoutes, subAppRoutes, descriptor >>
                 /\ last'.logged) ]_vars

\* addLifecycleEndpoints was called again after webhooks were registered.
C10_Witness ==
    /\ last.op = "addLifecycleEndpoints"
    /\ last.logged
    /\ HasWebhookRoute(subAppRoutes)

\* The entries of the descriptor's modules.webhooks that addWebhooks pushed:
\* the last Registered(subAppRoutes) ones.
PushedEntries ==
    SubSeq(descriptor.modules.webhooks,
           Len(descriptor.modules.webhooks) - Registered(subAppRoutes) + 1,
           Len(descriptor.modules.webhooks))

\* C11 as stated: after addWebhooks calls every webhook entry of the
\* descriptor has url "/webhook/" followed by its own event name.
C11_EveryEntryDerived ==
    HasWebhookRoute(subAppRoutes)
        => \A i \in 1..Len(descriptor.modules.webhooks) :
              descriptor.modules.webhooks[i].url
                  = DerivedUrl(descriptor.modules.webhooks[i].event)

\* C11, amended: every webhook entry that addWebhooks pushed to the
\* descriptor is the definition of a registered configuration, in
\* registration order, with url "/webhook/" followed by its own event name;
\* no url supplied in a definition passed to addWebhooks is among them.
C11_PushedEntriesDerived ==
    /\ Len(descriptor.modules.webhooks) >= Registered(subAppRoutes)
    /\ Len(PushedEntries) = Len(AllRegistrations(subAppRoutes))
    /\ \A i \in 1..Len(PushedEntries) :
          /\ PushedEntries[i].event = AllRegistrations(subAppRoutes)[i].definition.event
          /\ PushedEntries[i].url = DerivedUrl(PushedEntries[i].event)
          /\ PushedEntries[i].url \notin Urls

\* addWebhooks was given a definition with a url of the caller's, on an
\* instance whose params already held a webhook entry.
C11_Witness ==
    /\ last.op = "addWebhooks"
    /\ last.supplied
    /\ Registered(subAppRoutes) = MaxRegistrations
    /\ Len(descriptor.modules.webhooks) > Registered(subAppRoutes)

\* C12: getUpmToken returns the UPM token whenever the server's response
\* carries an 'upm-token' header: the value returned is the header's value.
C12_ReturnsUpmToken ==
    (last.op = "getUpmToken" /\ last.upm.ok /\ last.upm.header # Undefined)
        => last.upm.returned = last.upm.header

\* C13: every webhook request that passed authentication has, when its
\* route handler is done, exactly one response {code, msg} with code 200,
\* 404 or 500; a request without a body is answered with 500; no request is
\* both forwarded with next(err) and answered, and nothing escapes the
\* handler.
C13_AuthenticatedRequestAnswered ==
    (last.op = "webhook" /\ last.auth = "Verified")
        => /\ last.res.code \in {200, 404, 500}
           /\ (~last.hook.defined => last.res.code = 500)
           /\ ~(last.nextErr /\ last.res # NoResponse)
           /\ ~last.unhandled

PendingFor(k) ==
    {q \in BagToSet(inflight) : q.state = "pending" /\ q.body.clientKey = k}

\* C14: under every interleaving of concurrently handled install and
\* uninstall notifications the store holds at most one record per tenant
\* key, and once no store call for key k is pending the store holds for k
\* what the last write that landed for k left: exactly the payload of that
\* install, or no record after an uninstall (or when no write for k landed).
C14_LastWriteWins ==
    \A k \in Keys :
        /\ Cardinality(RecordsOf(db, k)) <= 1
        /\ PendingFor(k) = {}
              => RecordsOf(db, k) =
                    IF landed[k].kind = "installed"
                    THEN {[key |-> k, value |-> landed[k].body]}
                    ELSE {}

\* An install and an uninstall for the same key were in flight together, both
\* store calls have landed, the install's last, while another tenant is
\* installed.
C14_Witness ==
    \E a, b \in BagToSet(inflight) :
        /\ a.state = "landed" /\ a.kind = "installed"
        /\ b.state = "landed" /\ b.kind = "uninstalled"
        /\ a.body.clientKey = b.body.clientKey
        /\ landed[a.body.clientKey].kind = "installed"
        /\ \E k \in Keys : k # a.body.clientKey /\ HasRecord(db, k)

====
